---------------------------- MODULE Spec2Model ----------------------------
(***************************************************************************)
(* A model of fabricator-assemble (src/index.js): the module-level state   *)
(* (options, assembly, the Handlebars partial registry), one invocation of *)
(* module.exports as a sequence of steps (setup's parse functions, one     *)
(* assemble step per view, the material helper, handleError), and the pure *)
(* functions they use (getName, buildContext, the path and placeholder     *)
(* rewrites).                                                              *)
(*                                                                         *)
(* Representation.  A JavaScript string is a sequence of one-character     *)
(* strings, so that the regular expressions of the source can be modelled  *)
(* by what they match.  A path is a sequence of segments (strings).  A     *)
(* JavaScript object is an association list: a sequence of <<key, value>>  *)
(* pairs with distinct keys, in property insertion order.                  *)
(***************************************************************************)
EXTENDS Integers, Sequences, FiniteSets, TLC

(***************************************************************************)
(* Characters and strings                                                  *)
(***************************************************************************)

\* The characters of the model in ASCII order; a character's rank is its index.
Uppers == <<"A", "B", "C", "D", "E", "F", "G", "H", "I", "J", "K", "L", "M",
            "N", "O", "P", "Q", "R", "S", "T", "U", "V", "W", "X", "Y", "Z">>

Lowers == <<"a", "b", "c", "d", "e", "f", "g", "h", "i", "j", "k", "l", "m",
            "n", "o", "p", "q", "r", "s", "t", "u", "v", "w", "x", "y", "z">>

Digits == <<"0", "1", "2", "3", "4", "5", "6", "7", "8", "9">>

Ascii == <<" ", "-", ".", "/">> \o Digits \o Uppers \o <<"_">> \o Lowers \o <<"|", "~">>

Rank(c) == CHOOSE i \in 1..Len(Ascii) : Ascii[i] = c

IsDigit(c) == \E i \in 1..Len(Digits) : Digits[i] = c

IsLower(c) == \E i \in 1..Len(Lowers) : Lowers[i] = c

IsUpper(c) == \E i \in 1..Len(Uppers) : Uppers[i] = c

toUpperCase(c) == IF IsLower(c) THEN Uppers[CHOOSE i \in 1..Len(Lowers) : Lowers[i] = c] ELSE c

toLowerCase(c) == IF IsUpper(c) THEN Lowers[CHOOSE i \in 1..Len(Uppers) : Uppers[i] = c] ELSE c

\* \w of a JavaScript regular expression
IsWordChar(c) == IsDigit(c) \/ IsLower(c) \/ IsUpper(c) \/ c = "_"

IsSpace(c) == c = " "

\* s < t in the order Array.prototype.sort gives strings (by code unit).
RECURSIVE StrLess(_, _)
StrLess(s, t) ==
    IF t = << >> THEN FALSE
    ELSE IF s = << >> THEN TRUE
    ELSE IF s[1] = t[1] THEN StrLess(Tail(s), Tail(t))
    ELSE Rank(s[1]) < Rank(t[1])

\* str.replace(/\s/g, '-')
SpacesToDashes(s) == [i \in 1..Len(s) |-> IF IsSpace(s[i]) THEN "-" ELSE s[i]]

\* str.replace(/\s/g, '')
DropSpaces(s) == SelectSeq(s, LAMBDA c : ~IsSpace(c))

\* str.replace(/\./g, '-')
DotsToDashes(s) == [i \in 1..Len(s) |-> IF s[i] = "." THEN "-" ELSE s[i]]

\* The sequences over alphabet A of length lo..hi.
StringsOver(A, lo, hi) == UNION {[1..n -> A] : n \in lo..hi}

Max(S) == CHOOSE x \in S : \A y \in S : y <= x

Min(S) == CHOOSE x \in S : \A y \in S : x <= y

(***************************************************************************)
(* path.extname, path.basename and getName                                 *)
(***************************************************************************)

\* path.extname of a base name: from the last '.' on, '' when there is no
\* '.', when the only '.' is the first character, or for '..'.
extname(base) ==
    LET dots == {i \in 1..Len(base) : base[i] = "."}
    IN  IF dots = {} \/ Max(dots) = 1 \/ base = <<".", ".">> THEN << >>
        ELSE SubSeq(base, Max(dots), Len(base))

\* path.basename(p, ext) of a path: its last segment without the suffix ext.
basename(p, ext) ==
    LET base == p[Len(p)]
    IN  SubSeq(base, 1, Len(base) - Len(ext))

\* name.replace(/^[0-9|\.\-]+/, ''): drops the leading run of digits, '|', '.' and '-'.
RECURSIVE StripLeadingOrdering(_)
StripLeadingOrdering(s) ==
    IF s # << >> /\ (IsDigit(s[1]) \/ s[1] \in {"|", ".", "-"})
    THEN StripLeadingOrdering(Tail(s))
    ELSE s

\* getName(filePath, preserveNumbers)
getName(filePath, preserveNumbers) ==
    LET name == SpacesToDashes(basename(filePath, extname(filePath[Len(filePath)])))
    IN  IF preserveNumbers THEN name ELSE StripLeadingOrdering(name)

(***************************************************************************)
(* The material helper's key: name.replace(/(\d+[\-\.])+/, '') twice       *)
(***************************************************************************)

\* The number of digits of s from position i on.
RECURSIVE DigitRun(_, _)
DigitRun(s, i) == IF i <= Len(s) /\ IsDigit(s[i]) THEN 1 + DigitRun(s, i + 1) ELSE 0

\* The length of the match of (\d+[\-\.])+ at position i of s, 0 if none.
RECURSIVE OrderingMatch(_, _)
OrderingMatch(s, i) ==
    LET d == DigitRun(s, i)
    IN  IF d > 0 /\ i + d <= Len(s) /\ s[i + d] \in {"-", "."}
        THEN d + 1 + OrderingMatch(s, i + d + 1)
        ELSE 0

\* s.replace(/(\d+[\-\.])+/, ''): the leftmost match is removed, wherever it is.
StripFirstOrdering(s) ==
    LET at == {i \in 1..Len(s) : OrderingMatch(s, i) > 0}
    IN  IF at = {} THEN s
        ELSE LET i == Min(at)
             IN  SubSeq(s, 1, i - 1) \o SubSeq(s, i + OrderingMatch(s, i), Len(s))

\* The key the material helper looks a partial up by.
helperKey(name) == StripFirstOrdering(StripFirstOrdering(name))

(***************************************************************************)
(* JavaScript values and objects                                           *)
(***************************************************************************)

\* A value is a string, a number, a function or an object; every value has
\* the same fields, so that any two values can be compared.
Str(s) == [kind |-> "string", str |-> s, num |-> 0, obj |-> << >>]

Num(n) == [kind |-> "number", str |-> << >>, num |-> n, obj |-> << >>]

Obj(o) == [kind |-> "object", str |-> << >>, num |-> 0, obj |-> o]

\* A function value; tag tells one function from another.
Fn(tag) == [kind |-> "function", str |-> tag, num |-> 0, obj |-> << >>]

\* The keys of an object, in property order.
Keys(o) == [i \in 1..Len(o) |-> o[i][1]]

KeySet(o) == {o[i][1] : i \in 1..Len(o)}

Has(o, k) == k \in KeySet(o)

\* o[k], for a key o has.
Get(o, k) == o[CHOOSE i \in 1..Len(o) : o[i][1] = k][2]

\* o[k] = v: an existing property keeps its place, a new one goes last.
Put(o, k, v) ==
    IF Has(o, k)
    THEN [i \in 1..Len(o) |-> IF o[i][1] = k THEN <<k, v>> ELSE o[i]]
    ELSE Append(o, <<k, v>>)

\* _.omit(o, k)
Omit(o, k) == SelectSeq(o, LAMBDA p : p[1] # k)

\* _.assign(target, source): every property of source is written to target,
\* whole (no recursion into the values).
RECURSIVE Assign(_, _)
Assign(target, source) ==
    IF source = << >> THEN target
    ELSE Assign(Put(target, source[1][1], source[1][2]), Tail(source))

\* The property names the source uses.
kName == <<"n", "a", "m", "e">>

kItems == <<"i", "t", "e", "m", "s">>

kData == <<"d", "a", "t", "a">>

kNotes == <<"n", "o", "t", "e", "s">>

kOrder == <<"o", "r", "d", "e", "r">>

kDest == <<"d", "e", "s", "t">>

kDestCopy == <<"d", "e", "s", "t", "-", "c", "o", "p", "y">>

kLayout == <<"l", "a", "y", "o", "u", "t">>

kBaseurl == <<"b", "a", "s", "e", "u", "r", "l">>

kReason == <<"r", "e", "a", "s", "o", "n">>

kMessage == <<"m", "e", "s", "s", "a", "g", "e">>

(***************************************************************************)
(* toTitleCase                                                             *)
(***************************************************************************)

\* The second replace of toTitleCase: every match of /\w\S*/g gets its first
\* character upper-cased and the rest lower-cased.
RECURSIVE TitleWords(_, _)
TitleWords(s, inWord) ==
    IF s = << >> THEN << >>
    ELSE LET c == s[1]
         IN  IF IsSpace(c) THEN <<c>> \o TitleWords(Tail(s), FALSE)
             ELSE IF inWord THEN <<toLowerCase(c)>> \o TitleWords(Tail(s), TRUE)
             ELSE IF IsWordChar(c) THEN <<toUpperCase(c)>> \o TitleWords(Tail(s), TRUE)
             ELSE <<c>> \o TitleWords(Tail(s), FALSE)

toTitleCase(str) ==
    TitleWords([i \in 1..Len(str) |-> IF str[i] \in {"-", "_"} THEN " " ELSE str[i]], FALSE)

(***************************************************************************)
(* Paths                                                                   *)
(***************************************************************************)

\* str.split('/')
RECURSIVE SplitSlash(_, _)
SplitSlash(s, cur) ==
    IF s = << >> THEN <<cur>>
    ELSE IF s[1] = "/" THEN <<cur>> \o SplitSlash(Tail(s), << >>)
    ELSE SplitSlash(Tail(s), Append(cur, s[1]))

\* path.normalize of segments of a relative path: '' and '.' are dropped,
\* '..' removes the segment before it.
RECURSIVE NormalizeSegs(_, _)
NormalizeSegs(segs, done) ==
    IF segs = << >> THEN done
    ELSE LET g == segs[1]
         IN  IF g = << >> \/ g = <<".">> THEN NormalizeSegs(Tail(segs), done)
             ELSE IF g = <<".", ".">> /\ done # << >> /\ done[Len(done)] # <<".", ".">>
                  THEN NormalizeSegs(Tail(segs), SubSeq(done, 1, Len(done) - 1))
             ELSE NormalizeSegs(Tail(segs), Append(done, g))

\* path.normalize(str), as the segments of the normalized path.
normalize(str) == NormalizeSegs(SplitSlash(str, << >>), << >>)

\* path.normalize(path.join(a, b, c)): join puts '/' between its non-empty arguments.
join3(a, b, c) == NormalizeSegs(SplitSlash(a, << >>) \o SplitSlash(b, << >>) \o SplitSlash(c, << >>), << >>)

join2(a, b) == NormalizeSegs(SplitSlash(a, << >>) \o SplitSlash(b, << >>), << >>)

\* s.replace(/\.[0-9a-z]+$/, extension) on the last segment of a path (no
\* match crosses a '/'): the match starts at the last '.', and is there only
\* when one or more digits and lower-case letters, and nothing else, follow it.
replaceExtension(path, extension) ==
    IF path = << >> THEN path
    ELSE LET base == path[Len(path)]
             dots == {i \in 1..Len(base) : base[i] = "."}
             i    == IF dots = {} THEN 0 ELSE Max(dots)
             hit  == /\ i > 0
                     /\ i < Len(base)
                     /\ \A j \in (i + 1)..Len(base) : IsDigit(base[j]) \/ IsLower(base[j])
         IN  IF hit
             THEN SubSeq(path, 1, Len(path) - 1) \o <<SubSeq(base, 1, i - 1) \o extension>>
             ELSE path

(***************************************************************************)
(* Files                                                                   *)
(*                                                                         *)
(* A file is [dir, base, data, body, calls]: the segments of its           *)
(* directory, its base name, its front matter (an object), the             *)
(* placeholders of its body and, for a view, the material helper calls its *)
(* template makes.  A placeholder {{<sigil><lead>tok<trail>}} is            *)
(* [sigil, lead, tok, trail]: sigil is "" (plain), "#" (block start),      *)
(* "/" (block end) or ">" (partial include), lead and trail count the      *)
(* whitespace characters around the token.                                 *)
(***************************************************************************)

File(dir, base, data, body, calls) ==
    [dir |-> dir, base |-> base, data |-> data, body |-> body, calls |-> calls]

Ph(sigil, lead, tok, trail) == [sigil |-> sigil, lead |-> lead, tok |-> tok, trail |-> trail]

\* The path of a file, as path functions get it.
PathOf(file) == Append(file.dir, file.base)

Range(seq) == {seq[i] : i \in 1..Len(seq)}

\* dir is root or lies below it.
IsUnder(dir, root) == Len(dir) >= Len(root) /\ SubSeq(dir, 1, Len(root)) = root

\* globby.sync of the patterns <root>/**/*: the files under a root, in the
\* order the disk lists them.
globFiles(roots, files) ==
    SelectSeq(files, LAMBDA f : \E r \in Range(roots) : IsUnder(f.dir, r))

(***************************************************************************)
(* parseMaterials                                                          *)
(***************************************************************************)

\* tok is key with its last character repeated: what key + '+?' matches.
RepeatsLast(key, tok) ==
    /\ key # << >>
    /\ Len(tok) >= Len(key)
    /\ SubSeq(tok, 1, Len(key)) = key
    /\ \A j \in (Len(key) + 1)..Len(tok) : tok[j] = key[Len(key)]

\* new RegExp('(\\{\\{[#\/]?)(\\s?' + key + '+?\\s?)(\\}\\})', 'g') matches ph.
fieldRegexMatches(key, ph) ==
    /\ ph.sigil \in {"", "#", "/"}
    /\ ph.lead <= 1
    /\ ph.trail <= 1
    /\ RepeatsLast(key, ph.tok)

\* content.replace(regex, ...): a match becomes p1 + nsId + '.' + p2 without
\* whitespace + p3.
rewriteField(content, nsId, key) ==
    [i \in 1..Len(content) |->
        IF fieldRegexMatches(key, content[i])
        THEN Ph(content[i].sigil, 0, nsId \o <<".">> \o content[i].tok, 0)
        ELSE content[i]]

\* _.forEach(localData, ...): one rewrite per field, in property order, each
\* over the content the one before left.
RECURSIVE rewriteFields(_, _, _)
rewriteFields(content, nsId, keys) ==
    IF keys = << >> THEN content
    ELSE rewriteFields(rewriteField(content, nsId, keys[1]), nsId, Tail(keys))

\* The directories of the disk: every non-empty prefix of a file's directory.
Directories(files) ==
    UNION {{SubSeq(f.dir, 1, n) : n \in 1..Len(f.dir)} : f \in Range(files)}

\* dirs (lines 294-303): the glob path.dirname(pattern) + '/*/' of a pattern
\* <root>/**/* is <root>/**/*/, which matches every directory below the
\* root at any depth; each match is mapped to its base name.
materialDirs(roots, files) ==
    {d[Len(d)] : d \in {e \in Directories(files) :
                          \E r \in Range(roots) : IsUnder(e, r) /\ Len(e) > Len(r)}}

\* A new collection: {name: toTitleCase(getName(dirName)), items: {}}.
newCollection(dirName) ==
    Obj(<< <<kName, Str(toTitleCase(getName(<<dirName>>, FALSE)))>>, <<kItems, Obj(<< >>)>> >>)

\* The items of a collection value.
ItemsOf(coll) == Get(coll.obj, kItems).obj

WithItems(coll, items) == Obj(Put(coll.obj, kItems, Obj(items)))

\* isSubCollection as the first forEach computes it (lines 309-311): of the
\* parent directory's name after getName.
stubIsSubCollection(file, dirs) == getName(<<file.dir[Len(file.dir) - 1]>>, TRUE) \in dirs

\* The first forEach of parseMaterials (lines 307-329), for one file.
stubFile(materials, file, dirs) ==
    LET parent          == getName(<<file.dir[Len(file.dir) - 1]>>, TRUE)
        collection      == getName(<<file.dir[Len(file.dir)]>>, TRUE)
        isSubCollection == stubIsSubCollection(file, dirs)
        materialBase    == IF isSubCollection THEN parent ELSE collection
        m1 == IF Has(materials, materialBase) THEN materials
              ELSE Put(materials, materialBase, newCollection(materialBase))
    IN  IF ~isSubCollection THEN m1
        ELSE LET items == ItemsOf(Get(m1, parent))
             IN  IF Has(items, collection) THEN m1
                 ELSE Put(m1, parent,
                          WithItems(Get(m1, parent), Put(items, collection, newCollection(collection))))

RECURSIVE stubFiles(_, _, _)
stubFiles(materials, files, dirs) ==
    IF files = << >> THEN materials
    ELSE stubFiles(stubFile(materials, files[1], dirs), Tail(files), dirs)

\* What the second forEach computes of a file (lines 336-344).
isSubCollectionOf(file, dirs) == file.dir[Len(file.dir) - 1] \in dirs

collectionOf(file) == getName(<<file.dir[Len(file.dir)]>>, TRUE)

materialId(file, dirs) ==
    IF isSubCollectionOf(file, dirs)
    THEN getName(<<collectionOf(file)>>, FALSE) \o <<".">> \o getName(PathOf(file), FALSE)
    ELSE getName(PathOf(file), FALSE)

materialKey(file, dirs) ==
    IF isSubCollectionOf(file, dirs)
    THEN collectionOf(file) \o <<".">> \o getName(PathOf(file), TRUE)
    ELSE getName(PathOf(file), TRUE)

\* id.replace(/\./g, '-')
namespacedId(id) == DotsToDashes(id)

\* id.split('.')[1]: the text between the first and the second '.'.
secondDotted(id) ==
    LET parts == SplitSlash([i \in 1..Len(id) |-> IF id[i] = "." THEN "/" ELSE id[i]], << >>)
    IN  parts[2]

\* The item a material is recorded as (lines 351-363; notes, rendered by
\* markdown-it, are left out).
materialItem(name, localData) ==
    Obj(<< <<kName, Str(toTitleCase(name))>>, <<kData, Obj(localData)>> >>)

\* The second forEach of parseMaterials (lines 333-386), for one file, on
\* st = [materials, materialData, partials, threw].  A TypeError (a property
\* of undefined is written) ends the pass and leaves what was done.
populateFile(st, file, dirs) ==
    LET collection == collectionOf(file)
        parent     == file.dir[Len(file.dir) - 1]
        isSub      == isSubCollectionOf(file, dirs)
        id         == materialId(file, dirs)
        key        == materialKey(file, dirs)
        localData  == Omit(file.data, kNotes)
        m          == st.materials
        defined    == IF ~isSub THEN Has(m, collection)
                      ELSE /\ Has(m, parent)
                           /\ Has(ItemsOf(Get(m, parent)), collection)
                           /\ Has(Get(ItemsOf(Get(m, parent)), collection).obj, kItems)
        m2 == IF ~isSub
              THEN Put(m, collection,
                       WithItems(Get(m, collection),
                                 Put(ItemsOf(Get(m, collection)), key, materialItem(id, localData))))
              ELSE LET sub == Get(ItemsOf(Get(m, parent)), collection)
                       sub2 == WithItems(sub, Put(ItemsOf(sub), key,
                                                  materialItem(secondDotted(id), localData)))
                   IN  Put(m, parent, WithItems(Get(m, parent),
                                                Put(ItemsOf(Get(m, parent)), collection, sub2)))
    IN  IF st.threw THEN st
        ELSE IF ~defined THEN [st EXCEPT !.threw = TRUE]
        ELSE [materials    |-> m2,
              materialData |-> Put(st.materialData, namespacedId(id), Obj(localData)),
              partials     |-> Put(st.partials, id,
                                   rewriteFields(file.body, namespacedId(id), Keys(localData))),
              threw        |-> FALSE]

RECURSIVE populateFiles(_, _, _)
populateFiles(st, files, dirs) ==
    IF files = << >> THEN st
    ELSE populateFiles(populateFile(st, files[1], dirs), Tail(files), dirs)

(***************************************************************************)
(* sortObj (the sort-object package)                                       *)
(***************************************************************************)

\* Key a comes before key b: by obj[k][prop] ascending for the values that
\* have the property, those without it after them, alphabetically by key.
sortsBefore(obj, prop, a, b) ==
    LET va == Get(obj, a)
        vb == Get(obj, b)
        ha == Has(va.obj, prop)
        hb == Has(vb.obj, prop)
    IN  IF ha /\ hb
        THEN LET na == Get(va.obj, prop).num
                 nb == Get(vb.obj, prop).num
             IN  na < nb \/ (na = nb /\ StrLess(a, b))
        ELSE IF ha # hb THEN ha
        ELSE StrLess(a, b)

RECURSIVE sortedKeys(_, _, _)
sortedKeys(obj, prop, ks) ==
    IF ks = {} THEN << >>
    ELSE LET first == CHOOSE a \in ks : \A b \in ks \ {a} : sortsBefore(obj, prop, a, b)
         IN  <<first>> \o sortedKeys(obj, prop, ks \ {first})

\* sortObj(obj, prop): a new object with the properties of obj in sorted order.
sortObj(obj, prop) ==
    LET ks == sortedKeys(obj, prop, KeySet(obj))
    IN  [i \in 1..Len(ks) |-> <<ks[i], Get(obj, ks[i])>>]

\* Lines 389-394: the materials object is sorted, then the items of each of
\* its collections.
sortMaterials(materials) ==
    LET top == sortObj(materials, kOrder)
    IN  [i \in 1..Len(top) |->
            <<top[i][1], WithItems(top[i][2], sortObj(ItemsOf(top[i][2]), kOrder))>>]

\* parseMaterials, on the assembly and the partial registry: the result is
\* [materials, materialData, partials, threw].
parseMaterials(opts, asm, registry, files) ==
    LET matched == globFiles(opts.materials, files)
        dirs    == materialDirs(opts.materials, files)
        st      == populateFiles([materials    |-> stubFiles(<< >>, matched, dirs),
                                  materialData |-> asm.materialData,
                                  partials     |-> registry,
                                  threw        |-> FALSE],
                                 matched, dirs)
    IN  IF st.threw THEN st ELSE [st EXCEPT !.materials = sortMaterials(st.materials)]

(***************************************************************************)
(* The other parse functions                                               *)
(***************************************************************************)

\* parseLayouts: assembly.layouts[getName(file)] = the file's content.
RECURSIVE parseLayouts(_, _)
parseLayouts(layouts, files) ==
    IF files = << >> THEN layouts
    ELSE parseLayouts(Put(layouts, getName(PathOf(files[1]), FALSE), Str(files[1].base)),
                      Tail(files))

\* parseLayoutIncludes: Handlebars.registerPartial(getName(file), content).
RECURSIVE parseLayoutIncludes(_, _)
parseLayoutIncludes(registry, files) ==
    IF files = << >> THEN registry
    ELSE parseLayoutIncludes(Put(registry, getName(PathOf(files[1]), FALSE), files[1].body),
                             Tail(files))

\* parseData: assembly.data[getName(file)] = the parsed YAML, which the
\* disk holds as the file's data.
RECURSIVE parseData(_, _)
parseData(data, files) ==
    IF files = << >> THEN data
    ELSE parseData(Put(data, getName(PathOf(files[1]), FALSE), Obj(files[1].data)), Tail(files))

\* The collection of a view (lines 502-503 and 632-633): its directory's
\* name, '' when that is options.keys.views.
viewCollection(opts, file) ==
    LET dirname == file.dir[Len(file.dir)]
    IN  IF dirname # opts.keys.views THEN dirname ELSE << >>

\* parseViews, for one file.
parseView(opts, views, file) ==
    LET id         == getName(PathOf(file), TRUE)
        collection == viewCollection(opts, file)
        fileData   == Omit(file.data, kNotes)
        v1 == IF Has(views, collection) THEN views
              ELSE Put(views, collection,
                       Obj(<< <<kName, Str(toTitleCase(collection))>>, <<kItems, Obj(<< >>)>> >>))
    IN  IF collection = << >> THEN views
        ELSE Put(v1, collection,
                 WithItems(Get(v1, collection),
                           Put(ItemsOf(Get(v1, collection)), id,
                               Obj(<< <<kName, Str(toTitleCase(id))>>, <<kData, Obj(fileData)>> >>))))

RECURSIVE parseViews(_, _, _)
parseViews(opts, views, files) ==
    IF files = << >> THEN views
    ELSE parseViews(opts, parseView(opts, views, files[1]), Tail(files))

\* parseDocs: assembly.docs[getName(file)] = {name, content}; the content,
\* rendered by markdown-it, is left out.
RECURSIVE parseDocs(_, _)
parseDocs(docs, files) ==
    IF files = << >> THEN docs
    ELSE LET id == getName(PathOf(files[1]), FALSE)
         IN  parseDocs(Put(docs, id, Obj(<< <<kName, Str(toTitleCase(id))>> >>)), Tail(files))

(***************************************************************************)
(* buildContext and the output path                                        *)
(***************************************************************************)

\* buildContext with the page data assigned last, over every other source.
buildContextPageLast(opts, asm, data, hash) ==
    LET materials == << <<opts.keys.materials, Obj(asm.materials)>> >>
        views     == << <<opts.keys.views, Obj(asm.views)>> >>
        docs      == << <<opts.keys.docs, Obj(asm.docs)>> >>
    IN  Assign(Assign(Assign(Assign(Assign(Assign(Assign(Assign(<< >>,
            asm.data), asm.materialData), opts.buildData), materials), views), docs), hash), data)

\* buildContext(data, hash) on the options and the assembly; an absent
\* argument is the empty object, which _.assign skips alike.
buildContext(opts, asm, data, hash) ==
    LET materials == << <<opts.keys.materials, Obj(asm.materials)>> >>
        views     == << <<opts.keys.views, Obj(asm.views)>> >>
        docs      == << <<opts.keys.docs, Obj(asm.docs)>> >>
    IN  Assign(Assign(Assign(Assign(Assign(Assign(Assign(Assign(<< >>,
            data), asm.data), asm.materialData), opts.buildData), materials), views), docs), hash)

\* A value is truthy.
Truthy(v) ==
    CASE v.kind = "string" -> v.str # << >>
      [] v.kind = "number" -> v.num # 0
      [] v.kind = "null"   -> FALSE
      [] OTHER             -> TRUE

\* o[k] is truthy (an absent property is undefined).
TruthyAt(o, k) == Has(o, k) /\ Truthy(Get(o, k))

\* destination with the two overrides in the other order: the front matter
\* dest applied after the destMap entry.
destinationMatterLast(opts, file) ==
    LET collection == viewCollection(opts, file)
        default    == join3(opts.dest, collection, file.base)
        fromMap    == IF TruthyAt(opts.destMap, collection)
                      THEN join2(Get(opts.destMap, collection).str, file.base)
                      ELSE default
        fromMatter == IF TruthyAt(file.data, kDest)
                      THEN normalize(Get(file.data, kDest).str)
                      ELSE fromMap
    IN  replaceExtension(fromMatter, opts.extension)

\* The path assemble writes a view to (lines 632-659).
destination(opts, file) ==
    LET collection == viewCollection(opts, file)
        default    == join3(opts.dest, collection, file.base)
        fromMatter == IF TruthyAt(file.data, kDest)
                      THEN normalize(Get(file.data, kDest).str)
                      ELSE default
        fromMap    == IF TruthyAt(opts.destMap, collection)
                      THEN join2(Get(opts.destMap, collection).str, file.base)
                      ELSE fromMatter
    IN  replaceExtension(fromMap, opts.extension)

\* The page data assemble passes to buildContext (lines 637-642).
pageData(opts, file) ==
    IF viewCollection(opts, file) # << >>
    THEN Put(file.data, kBaseurl, Str(<<".", ".">>))
    ELSE file.data

\* The id of the layout a view is wrapped in (line 645).
layoutOf(opts, file) ==
    IF TruthyAt(file.data, kLayout) THEN Get(file.data, kLayout).str ELSE opts.layout

(***************************************************************************)
(* Options                                                                 *)
(***************************************************************************)

sSrc == <<"s", "r", "c">>

sMaterials == <<"m", "a", "t", "e", "r", "i", "a", "l", "s">>

sViews == <<"v", "i", "e", "w", "s">>

sDocs == <<"d", "o", "c", "s">>

sDist == <<"d", "i", "s", "t">>

sDefault == <<"d", "e", "f", "a", "u", "l", "t">>

sHtml == <<".", "h", "t", "m", "l">>

Null == [kind |-> "null", str |-> << >>, num |-> 0, obj |-> << >>]

\* The defaults of lines 21-119.  A materials pattern <root>/**/* is held as
\* its root; the other globs are held by what they match (the disk's lists).
defaults ==
    [layout    |-> sDefault,
     materials |-> << <<sSrc, sMaterials>> >>,
     buildData |-> << >>,
     keys      |-> [materials |-> sMaterials, views |-> sViews, docs |-> sDocs],
     dest      |-> sDist,
     extension |-> sHtml,
     destMap   |-> << >>,
     onError   |-> Null,
     logErrors |-> FALSE]

\* _.merge({}, defaults, userOptions) (line 601): an option the user gives
\* replaces the default, keys is merged key by key.
mergeOptions(userOptions) ==
    [f \in DOMAIN defaults |->
        IF f \notin DOMAIN userOptions THEN defaults[f]
        ELSE IF f = "keys"
             THEN [k \in DOMAIN defaults.keys |->
                      IF k \in DOMAIN userOptions.keys THEN userOptions.keys[k]
                      ELSE defaults.keys[k]]
             ELSE userOptions[f]]

(***************************************************************************)
(* handleError                                                             *)
(***************************************************************************)

sAnErrorOccurred ==
    <<"A", "n", " ", "e", "r", "r", "o", "r", " ", "o", "c", "c", "u", "r", "r", "e", "d">>

\* The error object handleError builds (lines 210-214): the defaults with
\* the own enumerable properties of e assigned over them.
normalizeError(e) ==
    Assign(<< <<kName, Str(<<"E", "r", "r", "o", "r">>)>>,
              <<kReason, Str(<< >>)>>,
              <<kMessage, Str(sAnErrorOccurred)>> >>, e)

\* _.isFunction(options.onError)
isFunction(v) == v.kind = "function"

\* exit when only the callback clears it: logErrors no longer keeps the process.
exitsDespiteLogging(opts) == ~isFunction(opts.onError)

\* exit after handleError's two ifs (lines 207-226).
exits(opts) == ~isFunction(opts.onError) /\ ~opts.logErrors

(***************************************************************************)
(* The inputs of an invocation                                             *)
(*                                                                         *)
(* family names the set of inputs the invocations of a behaviour draw the  *)
(* user options, the disk and the thrown errors from; a specification      *)
(* fixes it.  Every family holds the baseline project.                     *)
(***************************************************************************)

\* How many times module.exports is invoked in one process.
MaxRuns == 2

Html(stem) == stem \o sHtml

Disk(layouts, includes, data, materials, views, docs) ==
    [layouts |-> layouts, includes |-> includes, data |-> data,
     materials |-> materials, views |-> views, docs |-> docs]

Call(name, context, hash) == [name |-> name, context |-> context, hash |-> hash]

MaterialsRoot == <<sSrc, sMaterials>>

ViewsRoot == <<sSrc, sViews>>

DefaultLayout == File(<<sSrc, sViews, <<"l">> >>, Html(sDefault), << >>, << >>, << >>)

\* src/materials/c/b.html, with a field l that its body uses.
ButtonMaterial ==
    File(<<sSrc, sMaterials, <<"c">> >>, Html(<<"b">>), << <<(<<"l">>), Str(<<"x">>)>> >>,
         <<Ph("", 0, <<"l">>, 0)>>, << >>)

\* src/materials/c/t.html
TableMaterial ==
    File(<<sSrc, sMaterials, <<"c">> >>, Html(<<"t">>), << <<(<<"w">>), Str(<<"y">>)>> >>,
         <<Ph("#", 1, <<"w">>, 1)>>, << >>)

\* src/data/k.yml
ToolkitData ==
    File(<<sSrc, <<"d">> >>, <<"k", ".", "y", "m", "l">>, << <<(<<"p">>), Str(<<"z">>)>> >>,
         << >>, << >>)

\* src/docs/i.md
IntroDoc == File(<<sSrc, sDocs>>, <<"i", ".", "m", "d">>, << >>, << >>, << >>)

\* src/views/index.html, which includes the material b.
IndexView ==
    File(ViewsRoot, Html(<<"i", "n", "d", "e", "x">>), << >>, << >>,
         <<Call(<<"b">>, << >>, << >>)>>)

\* src/views/p/a.html, in the collection p, with no helper call.
PlainView == File(<<sSrc, sViews, <<"p">> >>, Html(<<"a">>), << >>, << >>, << >>)

BaselineDisk ==
    Disk(<<DefaultLayout>>, << >>, <<ToolkitData>>, <<ButtonMaterial>>, <<IndexView>>, <<IntroDoc>>)

\* The baseline with the material t added, and without a data file.
WiderDisk ==
    Disk(<<DefaultLayout>>, << >>, << >>, <<ButtonMaterial, TableMaterial>>,
         <<IndexView, PlainView>>, <<IntroDoc>>)

\* A project whose material b and data file are gone.
BareDisk == Disk(<<DefaultLayout>>, << >>, << >>, << >>, <<PlainView>>, << >>)

\* Errors, as their own enumerable properties: a native Error has none
\* (message and stack are not enumerable, name is inherited), a
\* YAMLException has name, reason and message, a Handlebars exception has
\* message and name.
NativeError == << >>

YamlError ==
    << <<kName, Str(<<"Y">>)>>, <<kReason, Str(<<"b", "a", "d">>)>>, <<kMessage, Str(<<"m">>)>> >>

CompileError == << <<kMessage, Str(<<"c">>)>>, <<kName, Str(<<"E", "r", "r", "o", "r">>)>> >>

LifecycleOptions ==
    {<< >>} \cup
    {[onError |-> f] : f \in {Fn(<<"f">>), Str(<<"s">>)}} \cup
    {[logErrors |-> TRUE]} \cup
    {[onError |-> f, logErrors |-> TRUE] : f \in {Fn(<<"f">>), Str(<<"s">>)}}

\* A project with the given materials, one layout and one view without calls.
WithMaterials(materials) ==
    Disk(<<DefaultLayout>>, << >>, << >>, materials, <<PlainView>>, << >>)

\* Context family: each of the eight sources of buildContext may define the
\* key t.
kT == <<"t">>

ObjQ == Obj(<< <<(<<"q">>), Str(<<"B">>)>> >>)

\* src/data/t.yml and src/materials/c/t.html: a data file and a material of id t.
TData ==
    File(<<sSrc, <<"d">> >>, <<"t", ".", "y", "m", "l">>, << <<(<<"p">>), Str(<<"A">>)>> >>,
         << >>, << >>)

TMaterial ==
    File(<<sSrc, sMaterials, <<"c">> >>, Html(kT), << <<(<<"l">>), Str(<<"M">>)>> >>,
         <<Ph("", 0, <<"l">>, 0)>>, << >>)

MaybeT(present, v) == IF present THEN << <<kT, v>> >> ELSE << >>

ContextDisks ==
    {Disk(<<DefaultLayout>>, << >>,
          IF c[1] THEN <<TData>> ELSE << >>,
          IF c[2] THEN <<ButtonMaterial, TMaterial>> ELSE <<ButtonMaterial>>,
          <<File(ViewsRoot, Html(<<"i">>), MaybeT(c[3], Str(<<"C">>)), << >>,
                 <<Call(<<"b">>, MaybeT(c[4], Str(<<"P">>)), MaybeT(c[5], Str(<<"H">>)))>>)>>,
          <<IntroDoc>>)
     : c \in [1..5 -> BOOLEAN]}

ContextOptions ==
    {[buildData |-> b, keys |-> k] :
        b \in {<< >>, MaybeT(TRUE, Str(<<"B">>)), MaybeT(TRUE, ObjQ)},
        k \in {<< >>, [materials |-> kT], [views |-> kT], [docs |-> kT],
               [materials |-> kT, views |-> kT], [materials |-> kT, docs |-> kT],
               [views |-> kT, docs |-> kT], [materials |-> kT, views |-> kT, docs |-> kT]}}

\* Destination family: one view, in the views root or in the collection f,
\* with source extensions of every kind, with and without a front matter
\* dest, a destMap entry and a configured extension.
MaxExtensionLen == 2

SourceExtensions ==
    {<< >>} \cup {<<".">> \o e : e \in StringsOver({"h", "H", "1", "~"}, 1, MaxExtensionLen)}

sCustomX == <<"c", "/", "x", ".", "h", "t", "m", "l">>

DestMatters ==
    {<< >>,
     << <<kDest, Str(sCustomX)>> >>,
     << <<kDest, Str(<<"c", "/", "y">>)>> >>,
     << <<kDest, Str(<< >>)>> >>,
     << <<kDest, Str(sCustomX)>>, <<kDestCopy, Str(<<"k", "/", "z">>)>> >>}

DestDisks ==
    {Disk(<<DefaultLayout>>, << >>, << >>, << >>,
          <<File(dir, <<"x">> \o ext, matter, << >>, << >>)>>, << >>)
     : dir \in {ViewsRoot, <<sSrc, sViews, <<"f">> >>}, ext \in SourceExtensions,
       matter \in DestMatters}

DestOptions ==
    {[destMap |-> m, extension |-> e] :
        m \in {<< >>,
               << <<(<<"f">>), Str(<<"o", "/", "f">>)>> >>,
               << <<(<<"f">>), Str(<< >>)>> >>,
               << <<(<< >>), Str(<<"r">>)>> >>},
        e \in {sHtml, <<".", "h", "t", "m">>}}

\* Naming family: materials whose base names are the strings over a digit,
\* a dash and a letter that begin and end with a digit or a letter (and some
\* longer ones), directly in the collection c
\* or in its sub-collection 02-n, one or two of them; the view includes the
\* first by the name it has on disk.
MaxStemLen == 3

Stems ==
    {st \in StringsOver({"1", "-", "a"}, 1, MaxStemLen) :
        /\ \E i \in 1..Len(st) : st[i] = "a"
        /\ st[1] # "-" /\ st[Len(st)] # "-"}
    \cup {<<"h", "1", "-", "t">>, <<"0", "1", "-", "a">>}

FlatDir == <<sSrc, sMaterials, <<"c">> >>

NestedDir == <<sSrc, sMaterials, <<"c">>, <<"0", "2", "-", "n">> >>

\* A material marked by its own path, so that no two have the same body.
NamedMaterial(dir, stem) ==
    File(dir, Html(stem), << <<(<<"l">>), Str(dir[Len(dir)] \o <<"/">> \o stem)>> >>,
         <<Ph(">", 1, dir[Len(dir)] \o <<"/">> \o stem, 0)>>, << >>)

\* The name a material has on disk: its base name without the extension,
\* with its ordering prefix, after '<directory>.' in a sub-collection.
AuthoredName(file) ==
    LET stem == basename(PathOf(file), extname(file.base))
    IN  IF Len(file.dir) > Len(MaterialsRoot) + 1
        THEN file.dir[Len(file.dir)] \o <<".">> \o stem
        ELSE stem

NamingDisk(materials) ==
    Disk(<<DefaultLayout>>, << >>, << >>, materials,
         <<File(ViewsRoot, Html(<<"i">>), << >>, << >>,
                <<Call(AuthoredName(materials[1]), << >>, << >>)>>)>>, << >>)

NamingDisks ==
    {NamingDisk(<<NamedMaterial(d, st)>>) : d \in {FlatDir, NestedDir}, st \in Stems}
    \cup {NamingDisk(<<NamedMaterial(d1, s1), NamedMaterial(d2, s2)>>) :
            d1 \in {FlatDir, NestedDir}, d2 \in {FlatDir, NestedDir, <<sSrc, sMaterials, <<"e">> >>},
            s1 \in {<<"a">>, <<"1", "-", "a">>, <<"c", "-", "a">>},
            s2 \in {<<"a">>, <<"2", "-", "a">>, <<"b">>, <<"c", ".", "a">>}}

\* Layout family: one or two materials in directories up to MaxDepth below
\* the materials root, the directories named a, b or 'a b'.
MaxDepth == 3

DirNames == {<<"a">>, <<"b">>, <<"a", " ", "b">>}

LayoutDirs == {MaterialsRoot \o p : p \in StringsOver(DirNames, 0, MaxDepth)}

LayoutDisks ==
    {WithMaterials(<<NamedMaterial(d, <<"x">>)>>) : d \in LayoutDirs}
    \cup {WithMaterials(<<NamedMaterial(d1, <<"x">>), NamedMaterial(d2, <<"y">>)>>) :
            d1 \in LayoutDirs, d2 \in {MaterialsRoot \o p : p \in StringsOver(DirNames, 1, 1)}}

\* Fields family: one material with one or two fields and one placeholder.
MaxTokenLen == 3

FieldKeys == {<<"a">>, <<"b">>, <<"a", "b">>, <<"a", "a">>}

FieldData ==
    {<< <<k, Str(<<"v">>)>> >> : k \in FieldKeys}
    \cup {<< <<kk[1], Str(<<"v">>)>>, <<kk[2], Str(<<"w">>)>> >> :
            kk \in {q \in FieldKeys \X FieldKeys : q[1] # q[2]}}
    \cup {<< <<(<<"a">>), Str(<<"v">>)>>, <<kNotes, Str(<<"n">>)>> >>}

FieldPlaceholders ==
    {Ph(g, l, t, r) : g \in {"", "#", "/", ">"}, l \in 0..1, r \in 0..1,
                      t \in StringsOver({"a", "b"}, 1, MaxTokenLen)}

FieldDisks ==
    {WithMaterials(<<File(FlatDir, Html(<<"m">>), data, <<ph>>, << >>)>>) :
        data \in FieldData, ph \in FieldPlaceholders}

\* Ordering family: MaxItems materials, each with order 1, order 2 or no
\* order, all in the collection c or all in its sub-collection n, listed by
\* the glob in any order (line 291 asks for nosort).
MaxItems == 3

OrderMatters == {<< >>, << <<kOrder, Num(1)>> >>, << <<kOrder, Num(2)>> >>}

ItemStems == <<(<<"a">>), <<"b">>, <<"c">>, <<"d">>, <<"e">> >>

OrderingDisks ==
    {WithMaterials([i \in 1..MaxItems |->
                      File(dir, Html(ItemStems[perm[i]]), m[perm[i]], << >>, << >>)])
     : dir \in {FlatDir, <<sSrc, sMaterials, <<"c">>, <<"n">> >>},
       m \in [1..MaxItems -> OrderMatters],
       perm \in {q \in [1..MaxItems -> 1..MaxItems] : \A i, j \in 1..MaxItems : q[i] = q[j] => i = j}}

UserOptionsIn(fam) ==
    CASE fam = "lifecycle" -> LifecycleOptions
      [] fam = "context"   -> ContextOptions
      [] fam = "dest"      -> DestOptions
      [] OTHER             -> {<< >>}

DisksIn(fam) ==
    CASE fam = "lifecycle" -> {BaselineDisk, WiderDisk, BareDisk}
      [] fam = "context"   -> ContextDisks
      [] fam = "dest"      -> DestDisks \cup {BaselineDisk}
      [] fam = "naming"    -> NamingDisks
      [] fam = "layout"    -> LayoutDisks \cup {BaselineDisk}
      [] fam = "fields"    -> FieldDisks \cup {BaselineDisk}
      [] fam = "ordering"  -> OrderingDisks \cup {BaselineDisk}

ErrorsIn(fam) ==
    CASE fam = "lifecycle" -> {NativeError, YamlError}
      [] OTHER -> {YamlError}

RunsIn(fam) == IF fam = "lifecycle" THEN MaxRuns ELSE 1

(***************************************************************************)
(* The state                                                               *)
(***************************************************************************)

VARIABLES
    family,       \* the family of inputs
    disk,         \* the files the globs of the current invocation match
    options,      \* the module's options (line 126)
    assembly,     \* the module's assembly (lines 133-169)
    partials,     \* Handlebars.partials
    written,      \* the files written, each with the view it was written from
    pc,           \* where the current invocation is
    vi,           \* the index of the view assemble is at
    ci,           \* the index of the helper call the view's template is at
    thrown,       \* the error thrown by the current invocation, if one is
    exitCode,     \* the status the process exited with, 0 while it runs
    onErrorCalls, \* the calls of options.onError in the current invocation
    printed,      \* the number of console.error calls of handleError in it
    runs,         \* the invocations so far
    built,        \* the last call of buildContext: its arguments and result
    lookup        \* the last call of the material helper

vars == <<family, disk, options, assembly, partials, written, pc, vi, ci, thrown,
          exitCode, onErrorCalls, printed, runs, built, lookup>>

EmptyAssembly ==
    [layouts |-> << >>, data |-> << >>, materials |-> << >>, materialData |-> << >>,
     views |-> << >>, docs |-> << >>]

EmptyDisk == Disk(<< >>, << >>, << >>, << >>, << >>, << >>)

\* thrown is [is, e, at, own]: the error e was thrown at step at, by the
\* module's own code (own) or by a call it makes.
NoError == [is |-> FALSE, e |-> << >>, at |-> "", own |-> FALSE]

Thrown(e, at, own) == [is |-> TRUE, e |-> e, at |-> at, own |-> own]

NoCall == [made |-> FALSE, data |-> << >>, hash |-> << >>, context |-> << >>]

NoLookup == [made |-> FALSE, name |-> << >>, key |-> << >>, found |-> FALSE, template |-> << >>]

\* The state when the module is loaded.
Loaded ==
    /\ disk = EmptyDisk
    /\ options = << >>
    /\ assembly = EmptyAssembly
    /\ partials = << >>
    /\ written = {}
    /\ pc = "idle"
    /\ vi = 1
    /\ ci = 1
    /\ thrown = NoError
    /\ exitCode = 0
    /\ onErrorCalls = << >>
    /\ printed = 0
    /\ runs = 0
    /\ built = NoCall
    /\ lookup = NoLookup

(***************************************************************************)
(* The steps of an invocation                                              *)
(***************************************************************************)

Running == {"parseLayouts", "parseLayoutIncludes", "parseData", "parseMaterials",
            "parseViews", "parseDocs", "assemble", "render"}

\* module.exports is called: setup merges the options and registers the
\* helpers (lines 601-604).
Invoke ==
    /\ pc \in {"idle", "returned"}
    /\ runs < RunsIn(family)
    /\ \E userOptions \in UserOptionsIn(family), d \in DisksIn(family) :
          /\ options' = mergeOptions(userOptions)
          /\ disk' = d
    /\ pc' = "parseLayouts"
    /\ runs' = runs + 1
    /\ vi' = 1
    /\ ci' = 1
    /\ thrown' = NoError
    /\ onErrorCalls' = << >>
    /\ printed' = 0
    /\ built' = NoCall
    /\ lookup' = NoLookup
    /\ UNCHANGED <<family, assembly, partials, written, exitCode>>

ParseLayouts ==
    /\ pc = "parseLayouts"
    /\ assembly' = [assembly EXCEPT !.layouts = parseLayouts(<< >>, disk.layouts)]
    /\ pc' = "parseLayoutIncludes"
    /\ UNCHANGED <<family, disk, options, partials, written, vi, ci, thrown, exitCode,
                   onErrorCalls, printed, runs, built, lookup>>

ParseLayoutIncludes ==
    /\ pc = "parseLayoutIncludes"
    /\ partials' = parseLayoutIncludes(partials, disk.includes)
    /\ pc' = "parseData"
    /\ UNCHANGED <<family, disk, options, assembly, written, vi, ci, thrown, exitCode,
                   onErrorCalls, printed, runs, built, lookup>>

ParseData ==
    /\ pc = "parseData"
    /\ assembly' = [assembly EXCEPT !.data = parseData(<< >>, disk.data)]
    /\ pc' = "parseMaterials"
    /\ UNCHANGED <<family, disk, options, partials, written, vi, ci, thrown, exitCode,
                   onErrorCalls, printed, runs, built, lookup>>

\* parseMaterials; a TypeError inside it is caught by module.exports.
ParseMaterials ==
    /\ pc = "parseMaterials"
    /\ LET r == parseMaterials(options, assembly, partials, disk.materials)
       IN  /\ assembly' = [assembly EXCEPT !.materials = r.materials,
                                           !.materialData = r.materialData]
           /\ partials' = r.partials
           /\ pc' = IF r.threw THEN "catch" ELSE "parseViews"
           /\ thrown' = IF r.threw THEN Thrown(NativeError, pc, TRUE) ELSE thrown
    /\ UNCHANGED <<family, disk, options, written, vi, ci, exitCode, onErrorCalls,
                   printed, runs, built, lookup>>

ParseViews ==
    /\ pc = "parseViews"
    /\ assembly' = [assembly EXCEPT !.views = parseViews(options, << >>, disk.views)]
    /\ pc' = "parseDocs"
    /\ UNCHANGED <<family, disk, options, partials, written, vi, ci, thrown, exitCode,
                   onErrorCalls, printed, runs, built, lookup>>

ParseDocs ==
    /\ pc = "parseDocs"
    /\ assembly' = [assembly EXCEPT !.docs = parseDocs(<< >>, disk.docs)]
    /\ pc' = "assemble"
    /\ UNCHANGED <<family, disk, options, partials, written, vi, ci, thrown, exitCode,
                   onErrorCalls, printed, runs, built, lookup>>

\* assemble, for the next view, up to the compiled template (lines 629-647):
\* wrapPage throws a TypeError when the layout is not there.
AssembleView ==
    /\ pc = "assemble"
    /\ vi <= Len(disk.views)
    /\ LET file == disk.views[vi]
       IN  IF ~Has(assembly.layouts, layoutOf(options, file))
           THEN /\ thrown' = Thrown(NativeError, pc, TRUE)
                /\ pc' = "catch"
                /\ UNCHANGED built
           ELSE /\ built' = [made    |-> TRUE,
                             data    |-> pageData(options, file),
                             hash    |-> << >>,
                             context |-> buildContext(options, assembly,
                                                      pageData(options, file), << >>)]
                /\ pc' = "render"
                /\ UNCHANGED thrown
    /\ ci' = 1
    /\ UNCHANGED <<family, disk, options, assembly, partials, written, vi, exitCode,
                   onErrorCalls, printed, runs, lookup>>

\* The material helper (lines 568-589), called by the view's template:
\* Handlebars.compile throws when no partial has the key.
MaterialHelper ==
    /\ pc = "render"
    /\ ci <= Len(disk.views[vi].calls)
    /\ LET call == disk.views[vi].calls[ci]
           key  == helperKey(call.name)
       IN  IF Has(partials, key)
           THEN /\ lookup' = [made |-> TRUE, name |-> call.name, key |-> key,
                              found |-> TRUE, template |-> Get(partials, key)]
                /\ built' = [made    |-> TRUE,
                             data    |-> call.context,
                             hash    |-> call.hash,
                             context |-> buildContext(options, assembly,
                                                      call.context, call.hash)]
                /\ ci' = ci + 1
                /\ UNCHANGED <<pc, thrown>>
           ELSE /\ lookup' = [made |-> TRUE, name |-> call.name, key |-> key,
                              found |-> FALSE, template |-> << >>]
                /\ thrown' = Thrown(CompileError, pc, TRUE)
                /\ pc' = "catch"
                /\ UNCHANGED <<built, ci>>
    /\ UNCHANGED <<family, disk, options, assembly, partials, written, vi, exitCode,
                   onErrorCalls, printed, runs>>

\* The rendered view is written (lines 649-677), and its copy.
WriteView ==
    /\ pc = "render"
    /\ ci > Len(disk.views[vi].calls)
    /\ LET file == disk.views[vi]
           main == {[path |-> destination(options, file), src |-> PathOf(file),
                     copy |-> FALSE]}
           copy == IF TruthyAt(file.data, kDestCopy)
                   THEN {[path |-> normalize(Get(file.data, kDestCopy).str),
                          src  |-> PathOf(file), copy |-> TRUE]}
                   ELSE {}
       IN  written' = written \cup main \cup copy
    /\ vi' = vi + 1
    /\ pc' = "assemble"
    /\ UNCHANGED <<family, disk, options, assembly, partials, ci, thrown, exitCode,
                   onErrorCalls, printed, runs, built, lookup>>

\* assemble has no view left: module.exports returns.
Return ==
    /\ pc = "assemble"
    /\ vi > Len(disk.views)
    /\ pc' = "returned"
    /\ UNCHANGED <<family, disk, options, assembly, partials, written, vi, ci, thrown,
                   exitCode, onErrorCalls, printed, runs, built, lookup>>

\* A call the step makes (a read, a parse, a compilation) throws.
Throw ==
    /\ pc \in Running
    /\ \E e \in ErrorsIn(family) : thrown' = Thrown(e, pc, FALSE)
    /\ pc' = "catch"
    /\ UNCHANGED <<family, disk, options, assembly, partials, written, vi, ci, exitCode,
                   onErrorCalls, printed, runs, built, lookup>>

\* handleError (lines 204-234), called by the catch of module.exports.
HandleError ==
    /\ pc = "catch"
    /\ onErrorCalls' = IF isFunction(options.onError)
                       THEN Append(onErrorCalls, normalizeError(thrown.e))
                       ELSE onErrorCalls
    /\ printed' = IF options.logErrors \/ exits(options) THEN printed + 1 ELSE printed
    /\ exitCode' = IF exits(options) THEN 1 ELSE exitCode
    /\ pc' = IF exits(options) THEN "exited" ELSE "returned"
    /\ UNCHANGED <<family, disk, options, assembly, partials, written, vi, ci, thrown,
                   runs, built, lookup>>

Next ==
    \/ Invoke
    \/ ParseLayouts
    \/ ParseLayoutIncludes
    \/ ParseData
    \/ ParseMaterials
    \/ ParseViews
    \/ ParseDocs
    \/ AssembleView
    \/ MaterialHelper
    \/ WriteView
    \/ Return
    \/ Throw
    \/ HandleError

Init == family = "lifecycle" /\ Loaded

Spec == Init /\ [][Next]_vars

\* The same program, its inputs drawn from the other families.
InitContext == family = "context" /\ Loaded

SpecContext == InitContext /\ [][Next]_vars

InitDest == family = "dest" /\ Loaded

SpecDest == InitDest /\ [][Next]_vars

InitNaming == family = "naming" /\ Loaded

SpecNaming == InitNaming /\ [][Next]_vars

InitLayout == family = "layout" /\ Loaded

SpecLayout == InitLayout /\ [][Next]_vars

InitFields == family = "fields" /\ Loaded

SpecFields == InitFields /\ [][Next]_vars

InitOrdering == family = "ordering" /\ Loaded

SpecOrdering == InitOrdering /\ [][Next]_vars

(***************************************************************************)
(* Claims about the main specification                                     *)
(***************************************************************************)

\* The assembly a run builds from its own inputs alone.
FreshAssembly ==
    LET m == parseMaterials(options, EmptyAssembly, << >>, disk.materials)
    IN  [layouts      |-> parseLayouts(<< >>, disk.layouts),
         data         |-> parseData(<< >>, disk.data),
         materials    |-> m.materials,
         materialData |-> m.materialData,
         views        |-> parseViews(options, << >>, disk.views),
         docs         |-> parseDocs(<< >>, disk.docs)]

\* Two objects have the same properties with the same values.
SameEntries(a, b) == KeySet(a) = KeySet(b) /\ \A k \in KeySet(a) : Get(a, k) = Get(b, k)

ErrorDefault(f) ==
    CASE f = kName    -> Str(<<"E", "r", "r", "o", "r">>)
      [] f = kReason  -> Str(<< >>)
      [] f = kMessage -> Str(sAnErrorOccurred)

\* C4: once handleError has handled the error an invocation threw, the
\* process has exited with a non-zero status exactly when options.onError is
\* no function and options.logErrors is not set; a function onError was
\* called exactly once, with an object that has name, reason and message,
\* each the error's own or else the default, and the invocation returned; with
\* logErrors alone the error was printed once and the invocation returned.
C4_ErrorPolicy ==
    (thrown.is /\ pc \in {"returned", "exited"}) =>
        LET callback == options.onError.kind = "function"
            logging  == options.logErrors
        IN  /\ (exitCode # 0) <=> (~callback /\ ~logging)
            /\ (pc = "exited") <=> (exitCode # 0)
            /\ callback =>
                  /\ Len(onErrorCalls) = 1
                  /\ \A f \in {kName, kReason, kMessage} :
                        /\ Has(onErrorCalls[1], f)
                        /\ Get(onErrorCalls[1], f) =
                              IF Has(thrown.e, f) THEN Get(thrown.e, f) ELSE ErrorDefault(f)
                  /\ \A f \in KeySet(thrown.e) : Get(onErrorCalls[1], f) = Get(thrown.e, f)
                  /\ pc = "returned"
            /\ ~callback => onErrorCalls = << >>
            /\ (~callback /\ logging) => (printed = 1 /\ pc = "returned")

\* C4's case: an error was thrown, the callback got it, the invocation returned.
C4_Witness ==
    /\ thrown.is
    /\ pc = "returned"
    /\ options.onError.kind = "function"
    /\ Len(onErrorCalls) = 1
    /\ exitCode = 0

\* C5: every context built in a run is the context the run's own inputs
\* give: the assembly it is built from holds nothing of an earlier run.
C5_RebuiltFromScratch ==
    built.made =>
        SameEntries(built.context, buildContext(options, FreshAssembly, built.data, built.hash))

(***************************************************************************)
(* Claims about buildContext and the output path                           *)
(***************************************************************************)

\* The eight sources of the last buildContext call, lowest precedence first.
ContextSources ==
    <<built.data,
      assembly.data,
      assembly.materialData,
      options.buildData,
      << <<options.keys.materials, Obj(assembly.materials)>> >>,
      << <<options.keys.views, Obj(assembly.views)>> >>,
      << <<options.keys.docs, Obj(assembly.docs)>> >>,
      built.hash>>

\* C1: every key of a built context is defined by a source, and every key a
\* source defines has, in the context, the whole value of the last source
\* defining it in the order page data, data files, material data,
\* buildData, materials key, views key, docs key, hash.
C1_ContextPrecedence ==
    built.made =>
        \A k \in KeySet(built.context) \cup UNION {KeySet(ContextSources[i]) : i \in 1..8} :
            LET defining == {i \in 1..8 : Has(ContextSources[i], k)}
            IN  /\ defining # {}
                /\ Has(built.context, k)
                /\ Get(built.context, k) = Get(ContextSources[Max(defining)], k)

\* C1's case: all eight sources define the key t, and the hash's value won.
C1_Witness ==
    /\ built.made
    /\ \A i \in 1..8 : Has(ContextSources[i], kT)
    /\ Get(built.context, kT) = Str(<<"H">>)

\* The destination a view has before the extension step, by priority: the
\* destMap entry of its collection, else its front matter dest, else the
\* default.  A dest or an entry that is the empty string counts as not set.
ExpectedDestination(file) ==
    LET dirname    == file.dir[Len(file.dir)]
        collection == IF dirname = options.keys.views THEN << >> ELSE dirname
        mapped     == /\ Has(options.destMap, collection)
                      /\ Get(options.destMap, collection).str # << >>
        explicit   == Has(file.data, kDest) /\ Get(file.data, kDest).str # << >>
    IN  IF mapped
        THEN normalize(Get(options.destMap, collection).str) \o <<file.base>>
        ELSE IF explicit
        THEN normalize(Get(file.data, kDest).str)
        ELSE normalize(options.dest)
             \o (IF collection = << >> THEN << >> ELSE <<collection>>) \o <<file.base>>

\* C2: every view's primary output is written to the destination the
\* layered overrides give (destMap entry over front matter dest over
\* <dest>/<collection>/<basename>), after the extension step.
C2_LayeredDestination ==
    \A w \in written :
        ~w.copy =>
            \E i \in 1..Len(disk.views) :
                /\ PathOf(disk.views[i]) = w.src
                /\ w.path = replaceExtension(ExpectedDestination(disk.views[i]),
                                             options.extension)

\* C2's case: a view with a front matter dest in a collection with a destMap
\* entry was written under the destMap entry.
C2_Witness ==
    \E w \in written :
        /\ ~w.copy
        /\ \E i \in 1..Len(disk.views) :
              /\ PathOf(disk.views[i]) = w.src
              /\ TruthyAt(disk.views[i].data, kDest)
              /\ TruthyAt(options.destMap, disk.views[i].dir[Len(disk.views[i].dir)])
        /\ SubSeq(w.path, 1, 2) = << <<"o">>, <<"f">> >>

EndsWith(s, suffix) ==
    Len(s) >= Len(suffix) /\ SubSeq(s, Len(s) - Len(suffix) + 1, Len(s)) = suffix

\* C3: the path of every primary output ends in the configured extension.
C3_ExtensionAlwaysRewritten ==
    \A w \in written : ~w.copy => EndsWith(w.path[Len(w.path)], options.extension)

(***************************************************************************)
(* Claims about parseMaterials and the material helper                     *)
(***************************************************************************)

\* parseMaterials has run in the current invocation, to its end.
ParsedMaterials == pc \in {"parseViews", "parseDocs", "assemble", "render"}

CurrentDirs == materialDirs(options.materials, disk.materials)

\* C6: a helper call with the name a material has on disk finds the
\* partial under the material's id.
C6_HelperFindsAuthoredName ==
    lookup.made =>
        \A i \in 1..Len(disk.materials) :
            lookup.name = AuthoredName(disk.materials[i]) =>
                /\ lookup.found
                /\ lookup.key = materialId(disk.materials[i], CurrentDirs)

\* C7: distinct material files of a run have distinct ids and distinct
\* namespaced keys, and each one's template and data are the registered ones.
C7_DistinctIds ==
    ParsedMaterials =>
        \A i, j \in 1..Len(disk.materials) :
            LET f  == disk.materials[i]
                g  == disk.materials[j]
                id == materialId(f, CurrentDirs)
            IN  /\ (PathOf(f) # PathOf(g)) =>
                      /\ id # materialId(g, CurrentDirs)
                      /\ namespacedId(id) # namespacedId(materialId(g, CurrentDirs))
                /\ Has(partials, id)
                /\ Get(partials, id) =
                      rewriteFields(f.body, namespacedId(id), Keys(Omit(f.data, kNotes)))
                /\ Has(assembly.materialData, namespacedId(id))
                /\ Get(assembly.materialData, namespacedId(id)) = Obj(Omit(f.data, kNotes))

\* C8: in the template registered for a material, the plain, block-start
\* and block-end placeholders whose token is one of its fields have the
\* token <namespacedId>.<field>, and every other placeholder is as in the file.
C8_ExactFieldRewrite ==
    ParsedMaterials =>
        \A i \in 1..Len(disk.materials) :
            LET f      == disk.materials[i]
                id     == materialId(f, CurrentDirs)
                fields == KeySet(Omit(f.data, kNotes))
                reg    == Get(partials, id)
            IN  /\ Has(partials, id)
                /\ Len(reg) = Len(f.body)
                /\ \A n \in 1..Len(f.body) :
                      IF f.body[n].sigil \in {"", "#", "/"} /\ f.body[n].tok \in fields
                      THEN /\ reg[n].sigil = f.body[n].sigil
                           /\ reg[n].tok = namespacedId(id) \o <<".">> \o f.body[n].tok
                      ELSE reg[n] = f.body[n]

\* The order attribute of an item: that of its front matter.
HasOrder(v) == Has(v.obj, kData) /\ Has(Get(v.obj, kData).obj, kOrder)

OrderOf(v) == Get(Get(v.obj, kData).obj, kOrder).num

\* Key a is to come before key b: by order ascending, the items without an
\* order after those with one, alphabetically.
ComesBefore(items, a, b) ==
    LET va == Get(items, a)
        vb == Get(items, b)
    IN  IF HasOrder(va) /\ HasOrder(vb)
        THEN OrderOf(va) < OrderOf(vb) \/ (OrderOf(va) = OrderOf(vb) /\ StrLess(a, b))
        ELSE IF HasOrder(va) # HasOrder(vb) THEN HasOrder(va)
        ELSE StrLess(a, b)

InOrder(items) ==
    \A i, j \in 1..Len(items) : i < j => ComesBefore(items, items[i][1], items[j][1])

\* C9: the collections, the items of every collection and the items of
\* every sub-collection are in order.
C9_SortedByOrder ==
    ParsedMaterials =>
        /\ InOrder(assembly.materials)
        /\ \A c \in 1..Len(assembly.materials) :
              LET items == ItemsOf(assembly.materials[c][2])
              IN  /\ InOrder(items)
                  /\ \A n \in 1..Len(items) :
                        Has(items[n][2].obj, kItems) => InOrder(ItemsOf(items[n][2]))

\* The directory holding the file's directory is one level below a root.
InSubCollectionByPosition(file) ==
    \E r \in Range(options.materials) : IsUnder(file.dir, r) /\ Len(file.dir) = Len(r) + 2

\* The file is recorded as an item of the sub-collection <parent>/<collection>.
RecordedNested(file) ==
    LET parent     == file.dir[Len(file.dir) - 1]
        collection == getName(<<file.dir[Len(file.dir)]>>, TRUE)
        key        == collection \o <<".">> \o getName(PathOf(file), TRUE)
    IN  /\ Has(assembly.materials, parent)
        /\ Has(ItemsOf(Get(assembly.materials, parent)), collection)
        /\ Has(Get(ItemsOf(Get(assembly.materials, parent)), collection).obj, kItems)
        /\ Has(ItemsOf(Get(ItemsOf(Get(assembly.materials, parent)), collection)), key)

\* The file is recorded as an item of the collection <collection>.
RecordedFlat(file) ==
    LET collection == getName(<<file.dir[Len(file.dir)]>>, TRUE)
    IN  /\ Has(assembly.materials, collection)
        /\ Has(ItemsOf(Get(assembly.materials, collection)), getName(PathOf(file), TRUE))

\* C10: a material is recorded as a sub-collection member exactly when its
\* directory's directory is one level below a root, and the two passes of
\* parseMaterials agree (the second never finds its collection missing).
C10_SubCollectionByPosition ==
    /\ ~(thrown.is /\ thrown.own /\ thrown.at = "parseMaterials")
    /\ ParsedMaterials =>
          \A i \in 1..Len(disk.materials) :
              IF InSubCollectionByPosition(disk.materials[i])
              THEN RecordedNested(disk.materials[i])
              ELSE RecordedFlat(disk.materials[i])

=============================================================================
